---- MODULE Spec2Model ----
(***************************************************************************)
(* touban: a duty-rotation ledger whose whole state is one printable       *)
(* token (JSON -> base64url without padding -> one hiragana code point per *)
(* base64 symbol).  Strings are sequences of Unicode code points, byte     *)
(* buffers are sequences of 0..255.                                        *)
(***************************************************************************)
EXTENDS Integers, Sequences, FiniteSets, TLC

VARIABLES token, last

vars == <<token, last>>

\* ------------------------------------------------------------------ bounds
MaxMembers == 3
MaxPeople == 2
MaxCodecMembers == 2
MaxRunMembers == 4

\* --------------------------------------------------------------- constants
HIRAGANA_START == 12353
BASE64_LEN == 64

\* -------------------------------------------------- Option / Result values
None == [some |-> FALSE]
Some(x) == [some |-> TRUE, v |-> x]
Ok(x) == [ok |-> TRUE, val |-> x]
Err(e) == [ok |-> FALSE, err |-> e]

\* ---------------------------------------------------------------- usize
\* A usize has 64 bits. Its value is held as the sequence of its decimal
\* digits, most significant first and without leading zero, so that every
\* value up to 2^64 - 1 has one: the program compares a usize with 0, takes
\* its minimum with a length, and prints it.
RECURSIVE USize(_)
USize(n) == IF n < 10 THEN <<n>> ELSE Append(USize(n \div 10), n % 10)

U64_MAX == <<1, 8, 4, 4, 6, 7, 4, 4, 0, 7, 3, 7, 0, 9, 5, 5, 1, 6, 1, 5>>

\* a <= b for digit sequences without leading zero
DecLeq(a, b) ==
    \/ Len(a) < Len(b)
    \/ /\ Len(a) = Len(b)
       /\ \/ a = b
          \/ \E k \in 1..Len(a) : /\ a[k] < b[k]
                                  /\ \A m \in 1..(k - 1) : a[m] = b[m]

\* The number a usize of at most nine digits stands for.
RECURSIVE UValue(_)
UValue(u) ==
    IF Len(u) = 1 THEN u[1]
    ELSE UValue(SubSeq(u, 1, Len(u) - 1)) * 10 + u[Len(u)]

\* min(u, len) for a usize u and the length len of a Vec
UMin(u, len) ==
    IF Len(u) > 9 THEN len
    ELSE IF UValue(u) <= len THEN UValue(u) ELSE len

\* ------------------------------------------------------- sequence helpers
RECURSIVE Flatten(_)
Flatten(ss) == IF ss = <<>> THEN <<>> ELSE Head(ss) \o Flatten(Tail(ss))

RECURSIVE SumSeq(_)
SumSeq(s) == IF s = <<>> THEN 0 ELSE Head(s) + SumSeq(Tail(s))

\* ------------------------------------- Base64URL <-> Hiragana (per symbol)
\* Faulty variant: the digits are placed after the upper-case letters, at 26.
Base64Index_DigitsAt26(ch) ==
    LET b == ch % 256 IN
    IF b >= 65 /\ b <= 90 THEN Some(b - 65)
    ELSE IF b >= 97 /\ b <= 122 THEN Some(b - 97 + 26)
    ELSE IF b >= 48 /\ b <= 57 THEN Some(b - 48 + 26)
    ELSE IF b = 45 THEN Some(62)
    ELSE IF b = 95 THEN Some(63)
    ELSE None

\* `ch as u8` keeps the low eight bits of the code point.
Base64Index(ch) ==
    LET b == ch % 256 IN
    IF b >= 65 /\ b <= 90 THEN Some(b - 65)
    ELSE IF b >= 97 /\ b <= 122 THEN Some(b - 97 + 26)
    ELSE IF b >= 48 /\ b <= 57 THEN Some(b - 48 + 52)
    ELSE IF b = 45 THEN Some(62)
    ELSE IF b = 95 THEN Some(63)
    ELSE None

base64url_char_to_hiragana(ch) ==
    LET idx == Base64Index(ch) IN
    IF ~idx.some THEN None
    ELSE Some(HIRAGANA_START + (idx.v % BASE64_LEN))

hiragana_char_to_base64url(ch) ==
    LET cp == ch IN
    IF cp < HIRAGANA_START \/ cp >= HIRAGANA_START + BASE64_LEN THEN None
    ELSE LET idx == cp - HIRAGANA_START IN
         IF idx <= 25 THEN Some(65 + idx)
         ELSE IF idx <= 51 THEN Some(97 + (idx - 26))
         ELSE IF idx <= 61 THEN Some(48 + (idx - 52))
         ELSE IF idx = 62 THEN Some(45)
         ELSE Some(95)

base64url_to_hiragana(b64) ==
    IF \E i \in 1..Len(b64) : ~base64url_char_to_hiragana(b64[i]).some
    THEN Err("invalid base64url char")
    ELSE Ok([i \in 1..Len(b64) |-> base64url_char_to_hiragana(b64[i]).v])

hiragana_to_base64url(hira) ==
    IF \E i \in 1..Len(hira) : ~hiragana_char_to_base64url(hira[i]).some
    THEN Err("invalid hiragana char")
    ELSE Ok([i \in 1..Len(hira) |-> hiragana_char_to_base64url(hira[i]).v])

\* ----------------------------------------- URL_SAFE_NO_PAD (base64 engine)
\* The URL-safe alphabet: A-Z a-z 0-9 - _
B64Symbol(i) ==
    IF i <= 25 THEN 65 + i
    ELSE IF i <= 51 THEN 97 + (i - 26)
    ELSE IF i <= 61 THEN 48 + (i - 52)
    ELSE IF i = 62 THEN 45
    ELSE 95

\* The value of a symbol of the URL-safe alphabet; None for any other char.
B64Value(ch) ==
    IF ch >= 65 /\ ch <= 90 THEN Some(ch - 65)
    ELSE IF ch >= 97 /\ ch <= 122 THEN Some(ch - 97 + 26)
    ELSE IF ch >= 48 /\ ch <= 57 THEN Some(ch - 48 + 52)
    ELSE IF ch = 45 THEN Some(62)
    ELSE IF ch = 95 THEN Some(63)
    ELSE None

Pow64(k) == IF k = 0 THEN 1 ELSE IF k = 1 THEN 64 ELSE IF k = 2 THEN 4096 ELSE 262144
Pow256(k) == IF k = 0 THEN 1 ELSE IF k = 1 THEN 256 ELSE 65536

\* Three bytes give four symbols; a last group of one byte gives two symbols
\* and of two bytes three symbols; no '=' is written.
B64Encode(bytes) ==
    LET n == Len(bytes)
        rem == n % 3
        outLen == (n \div 3) * 4 + (IF rem = 0 THEN 0 ELSE rem + 1)
        ByteAt(k) == IF k <= n THEN bytes[k] ELSE 0
        Group(g) == ByteAt(3 * g + 1) * 65536 + ByteAt(3 * g + 2) * 256 + ByteAt(3 * g + 3)
    IN  [k \in 1..outLen |->
            B64Symbol((Group((k - 1) \div 4) \div Pow64(3 - ((k - 1) % 4))) % 64)]

\* Decoding without padding: every char must be of the alphabet, a length of
\* 1 mod 4 is invalid, and the unused low bits of the last symbol must be 0.
B64Decode(chars) ==
    LET n == Len(chars)
        rem == n % 4
        outLen == (n \div 4) * 3 + (IF rem = 0 THEN 0 ELSE rem - 1)
        ValAt(k) == IF k <= n THEN B64Value(chars[k]).v ELSE 0
        Group(g) == ValAt(4 * g + 1) * 262144 + ValAt(4 * g + 2) * 4096
                    + ValAt(4 * g + 3) * 64 + ValAt(4 * g + 4)
    IN  IF \E i \in 1..n : ~B64Value(chars[i]).some THEN Err("invalid byte")
        ELSE IF rem = 1 THEN Err("invalid length")
        ELSE IF rem = 2 /\ ValAt(n) % 16 # 0 THEN Err("invalid last symbol")
        ELSE IF rem = 3 /\ ValAt(n) % 4 # 0 THEN Err("invalid last symbol")
        ELSE Ok([k \in 1..outLen |->
                    (Group((k - 1) \div 3) \div Pow256(2 - ((k - 1) % 3))) % 256])

\* ------------------------------------------------ serde_json::to_vec(Book)
RECURSIVE Digits(_)
Digits(n) == IF n < 10 THEN <<48 + n>> ELSE Append(Digits(n \div 10), 48 + (n % 10))

UDigits(u) == [i \in 1..Len(u) |-> 48 + u[i]]

HexDigit(d) == IF d < 10 THEN 48 + d ELSE 97 + (d - 10)

\* A Rust String holds UTF-8; the serializer writes its bytes as they are.
Utf8Encode(c) ==
    IF c < 128 THEN <<c>>
    ELSE IF c < 2048 THEN <<192 + (c \div 64), 128 + (c % 64)>>
    ELSE IF c < 65536 THEN <<224 + (c \div 4096), 128 + ((c \div 64) % 64), 128 + (c % 64)>>
    ELSE <<240 + (c \div 262144), 128 + ((c \div 4096) % 64),
           128 + ((c \div 64) % 64), 128 + (c % 64)>>

\* JSON string escapes: \" \\ \b \t \n \f \r, \u00xx for other controls.
EscapeChar(c) ==
    IF c = 34 THEN <<92, 34>>
    ELSE IF c = 92 THEN <<92, 92>>
    ELSE IF c = 8 THEN <<92, 98>>
    ELSE IF c = 9 THEN <<92, 116>>
    ELSE IF c = 10 THEN <<92, 110>>
    ELSE IF c = 12 THEN <<92, 102>>
    ELSE IF c = 13 THEN <<92, 114>>
    ELSE IF c < 32 THEN <<92, 117, 48, 48, HexDigit(c \div 16), HexDigit(c % 16)>>
    ELSE Utf8Encode(c)

SerString(str) ==
    <<34>> \o Flatten([i \in 1..Len(str) |-> EscapeChar(str[i])]) \o <<34>>

\* {"name":NAME,"count":COUNT}
SerMember(m) ==
    <<123, 34, 110, 97, 109, 101, 34, 58>> \o SerString(m.name)
    \o <<44, 34, 99, 111, 117, 110, 116, 34, 58>> \o Digits(m.count) \o <<125>>

RECURSIVE SerMembers(_)
SerMembers(ms) ==
    IF ms = <<>> THEN <<>>
    ELSE IF Len(ms) = 1 THEN SerMember(ms[1])
    ELSE SerMember(ms[1]) \o <<44>> \o SerMembers(Tail(ms))

\* {"people":P,"interval":I,"members":[...]}
SerBook(book) ==
    <<123, 34, 112, 101, 111, 112, 108, 101, 34, 58>> \o UDigits(book.people)
    \o <<44, 34, 105, 110, 116, 101, 114, 118, 97, 108, 34, 58>> \o UDigits(book.interval)
    \o <<44, 34, 109, 101, 109, 98, 101, 114, 115, 34, 58, 91>>
    \o SerMembers(book.members) \o <<93, 125>>

encode_book(book) ==
    LET json == SerBook(book)
        b64 == B64Encode(json)
    IN  base64url_to_hiragana(b64)

\* ------------------------------------- serde_json::from_slice::<Book>(bytes)
\* A parse step returns POk(value, index after it) or PErr(message); indices
\* are 1-based positions in the byte buffer s.
POk(v, p) == [ok |-> TRUE, val |-> v, pos |-> p]
PErr(e) == [ok |-> FALSE, err |-> e]

Peek(s, i) == IF i >= 1 /\ i <= Len(s) THEN s[i] ELSE -1

IsDigit(c) == c >= 48 /\ c <= 57

RECURSIVE SkipWs(_, _)
SkipWs(s, i) == IF Peek(s, i) \in {32, 9, 10, 13} THEN SkipWs(s, i + 1) ELSE i

RECURSIVE ScanDigits(_, _)
ScanDigits(s, i) == IF IsDigit(Peek(s, i)) THEN ScanDigits(s, i + 1) ELSE i

RECURSIVE DigitsValue(_, _, _, _)
DigitsValue(s, i, j, acc) ==
    IF i >= j THEN acc ELSE DigitsValue(s, i + 1, j, acc * 10 + (s[i] - 48))

\* deserialize_u8 / deserialize_u64: an integer literal without sign, leading
\* zero, fraction or exponent. A literal above 2^64 - 1 is read as a float,
\* which neither type accepts; a literal above 255 is no u8. The value of a
\* u8 is a number, the value of a usize its digits.
UnsignedOf(s, i, j, isU8) ==
    LET u == [k \in 1..(j - i) |-> s[i + k - 1] - 48]
    IN  IF ~DecLeq(u, U64_MAX) THEN PErr("invalid type: float")
        ELSE IF ~isU8 THEN POk(u, j)
        ELSE IF ~DecLeq(u, USize(255)) THEN PErr("invalid value: out of range u8")
        ELSE POk(DigitsValue(s, i, j, 0), j)

ParseUnsigned(s, i0, isU8) ==
    LET i == SkipWs(s, i0)
        c == Peek(s, i)
        j == IF c = 48 THEN i + 1 ELSE ScanDigits(s, i)
    IN  IF c = -1 THEN PErr("EOF while parsing a value")
        ELSE IF c = 45 THEN PErr("invalid value: negative or float")
        ELSE IF ~IsDigit(c) THEN PErr("invalid type: expected integer")
        ELSE IF c = 48 /\ IsDigit(Peek(s, j)) THEN PErr("invalid number")
        ELSE IF Peek(s, j) \in {46, 101, 69} THEN PErr("invalid type: float")
        ELSE UnsignedOf(s, i, j, isU8)

HexVal(c) ==
    IF IsDigit(c) THEN Some(c - 48)
    ELSE IF c >= 97 /\ c <= 102 THEN Some(c - 97 + 10)
    ELSE IF c >= 65 /\ c <= 70 THEN Some(c - 65 + 10)
    ELSE None

Hex4(s, i) ==
    IF \E k \in 0..3 : ~HexVal(Peek(s, i + k)).some THEN PErr("invalid escape")
    ELSE POk(HexVal(s[i]).v * 4096 + HexVal(s[i + 1]).v * 256
             + HexVal(s[i + 2]).v * 16 + HexVal(s[i + 3]).v, i + 4)

\* The escape after a backslash, s[i] being the char that follows it.
ParseEscape(s, i) ==
    LET c == Peek(s, i) IN
    IF c = 34 THEN POk(34, i + 1)
    ELSE IF c = 92 THEN POk(92, i + 1)
    ELSE IF c = 47 THEN POk(47, i + 1)
    ELSE IF c = 98 THEN POk(8, i + 1)
    ELSE IF c = 102 THEN POk(12, i + 1)
    ELSE IF c = 110 THEN POk(10, i + 1)
    ELSE IF c = 114 THEN POk(13, i + 1)
    ELSE IF c = 116 THEN POk(9, i + 1)
    ELSE IF c = 117 THEN
        LET n1 == Hex4(s, i + 1) IN
        IF ~n1.ok THEN n1
        ELSE IF n1.val >= 56320 /\ n1.val <= 57343 THEN PErr("lone surrogate")
        ELSE IF n1.val >= 55296 /\ n1.val <= 56319 THEN
            IF Peek(s, i + 5) # 92 \/ Peek(s, i + 6) # 117
            THEN PErr("unexpected end of hex escape")
            ELSE LET n2 == Hex4(s, i + 7) IN
                 IF ~n2.ok THEN n2
                 ELSE IF n2.val < 56320 \/ n2.val > 57343 THEN PErr("lone surrogate")
                 ELSE POk(65536 + (n1.val - 55296) * 1024 + (n2.val - 56320), i + 11)
        ELSE POk(n1.val, i + 5)
    ELSE PErr("invalid escape")

IsCont(b) == b >= 128 /\ b <= 191

\* One UTF-8 encoded scalar value starting at s[i] (str::from_utf8's rules).
Utf8Decode(s, i) ==
    LET b0 == Peek(s, i)
        b1 == Peek(s, i + 1)
        b2 == Peek(s, i + 2)
        b3 == Peek(s, i + 3)
    IN  IF b0 < 128 THEN POk(b0, i + 1)
        ELSE IF b0 >= 194 /\ b0 <= 223 THEN
            IF IsCont(b1) THEN POk((b0 - 192) * 64 + (b1 - 128), i + 2)
            ELSE PErr("invalid unicode code point")
        ELSE IF b0 >= 224 /\ b0 <= 239 THEN
            IF IsCont(b1) /\ IsCont(b2) /\ (b0 = 224 => b1 >= 160) /\ (b0 = 237 => b1 <= 159)
            THEN POk((b0 - 224) * 4096 + (b1 - 128) * 64 + (b2 - 128), i + 3)
            ELSE PErr("invalid unicode code point")
        ELSE IF b0 >= 240 /\ b0 <= 244 THEN
            IF IsCont(b1) /\ IsCont(b2) /\ IsCont(b3)
               /\ (b0 = 240 => b1 >= 144) /\ (b0 = 244 => b1 <= 143)
            THEN POk((b0 - 240) * 262144 + (b1 - 128) * 4096 + (b2 - 128) * 64
                     + (b3 - 128), i + 4)
            ELSE PErr("invalid unicode code point")
        ELSE PErr("invalid unicode code point")

\* The chars of a string up to its closing quote, s[i] following the opening one.
RECURSIVE ParseStrFrom(_, _, _)
ParseStrFrom(s, i, acc) ==
    LET c == Peek(s, i) IN
    IF c = -1 THEN PErr("EOF while parsing a string")
    ELSE IF c = 34 THEN POk(acc, i + 1)
    ELSE IF c = 92 THEN
        LET e == ParseEscape(s, i + 1) IN
        IF e.ok THEN ParseStrFrom(s, e.pos, Append(acc, e.val)) ELSE e
    ELSE IF c < 32 THEN PErr("control character while parsing string")
    ELSE LET u == Utf8Decode(s, i) IN
         IF u.ok THEN ParseStrFrom(s, u.pos, Append(acc, u.val)) ELSE u

ParseString(s, i0) ==
    LET i == SkipWs(s, i0) IN
    IF Peek(s, i) = 34 THEN ParseStrFrom(s, i + 1, <<>>)
    ELSE IF Peek(s, i) = -1 THEN PErr("EOF while parsing a value")
    ELSE PErr("invalid type: expected a string")

\* ---- a value of an unknown field is read and dropped (IgnoredAny)
MatchAt(s, i, lit) == \A k \in 1..Len(lit) : Peek(s, i + k - 1) = lit[k]

\* A JSON number, s[i] being '-' or a digit.
SkipNumber(s, i) ==
    LET a == IF Peek(s, i) = 45 THEN i + 1 ELSE i
        b == IF Peek(s, a) = 48 THEN a + 1 ELSE ScanDigits(s, a)
        c == IF Peek(s, b) = 46 THEN ScanDigits(s, b + 1) ELSE b
        e == IF Peek(s, c) \in {101, 69}
             THEN (IF Peek(s, c + 1) \in {43, 45} THEN c + 2 ELSE c + 1)
             ELSE c
        d == IF e > c THEN ScanDigits(s, e) ELSE c
    IN  IF b = a THEN PErr("invalid number")
        ELSE IF Peek(s, a) = 48 /\ IsDigit(Peek(s, b)) THEN PErr("invalid number")
        ELSE IF Peek(s, b) = 46 /\ c = b + 1 THEN PErr("invalid number")
        ELSE IF e > c /\ d = e THEN PErr("invalid number")
        ELSE POk(0, d)

\* A string that is dropped: escapes are checked, the bytes are not decoded.
RECURSIVE SkipStrFrom(_, _)
SkipStrFrom(s, i) ==
    LET c == Peek(s, i) IN
    IF c = -1 THEN PErr("EOF while parsing a string")
    ELSE IF c = 34 THEN POk(0, i + 1)
    ELSE IF c = 92 THEN
        IF Peek(s, i + 1) \in {34, 92, 47, 98, 102, 110, 114, 116} THEN SkipStrFrom(s, i + 2)
        ELSE IF Peek(s, i + 1) = 117 THEN
            LET h == Hex4(s, i + 2) IN IF h.ok THEN SkipStrFrom(s, h.pos) ELSE h
        ELSE PErr("invalid escape")
    ELSE IF c < 32 THEN PErr("control character while parsing string")
    ELSE SkipStrFrom(s, i + 1)

RECURSIVE SkipValue(_, _)
RECURSIVE SkipArrayRest(_, _, _)
RECURSIVE SkipObjectRest(_, _, _)

SkipValue(s, i0) ==
    LET i == SkipWs(s, i0)
        c == Peek(s, i)
    IN  IF c = -1 THEN PErr("EOF while parsing a value")
        ELSE IF c = 110 THEN
            IF MatchAt(s, i, <<110, 117, 108, 108>>) THEN POk(0, i + 4) ELSE PErr("expected ident")
        ELSE IF c = 116 THEN
            IF MatchAt(s, i, <<116, 114, 117, 101>>) THEN POk(0, i + 4) ELSE PErr("expected ident")
        ELSE IF c = 102 THEN
            IF MatchAt(s, i, <<102, 97, 108, 115, 101>>) THEN POk(0, i + 5)
            ELSE PErr("expected ident")
        ELSE IF c = 45 \/ IsDigit(c) THEN SkipNumber(s, i)
        ELSE IF c = 34 THEN SkipStrFrom(s, i + 1)
        ELSE IF c = 91 THEN SkipArrayRest(s, i + 1, TRUE)
        ELSE IF c = 123 THEN SkipObjectRest(s, i + 1, TRUE)
        ELSE PErr("expected value")

\* The rest of an array after '[' (first) or after one of its elements.
SkipArrayRest(s, i0, first) ==
    LET i == SkipWs(s, i0)
        c == Peek(s, i)
    IN  IF c = -1 THEN PErr("EOF while parsing a list")
        ELSE IF c = 93 THEN POk(0, i + 1)
        ELSE IF first THEN
            LET v == SkipValue(s, i) IN
            IF v.ok THEN SkipArrayRest(s, v.pos, FALSE) ELSE v
        ELSE IF c = 44 THEN
            LET v == SkipValue(s, i + 1) IN
            IF v.ok THEN SkipArrayRest(s, v.pos, FALSE) ELSE v
        ELSE PErr("expected comma or closing bracket")

\* The rest of an object after '{' (first) or after one of its entries.
SkipObjectRest(s, i0, first) ==
    LET i == SkipWs(s, i0)
        c == Peek(s, i)
        k == IF first THEN i ELSE SkipWs(s, i + 1)
        key == SkipStrFrom(s, k + 1)
        colon == SkipWs(s, key.pos)
        v == SkipValue(s, colon + 1)
    IN  IF c = -1 THEN PErr("EOF while parsing an object")
        ELSE IF c = 125 THEN POk(0, i + 1)
        ELSE IF ~first /\ c # 44 THEN PErr("expected comma or closing brace")
        ELSE IF Peek(s, k) # 34 THEN PErr("key must be a string")
        ELSE IF ~key.ok THEN key
        ELSE IF Peek(s, colon) # 58 THEN PErr("expected colon")
        ELSE IF v.ok THEN SkipObjectRest(s, v.pos, FALSE) ELSE v

\* ---- the derived Deserialize of Member and Book
\* A struct is read from an object (fields in any order, unknown fields
\* dropped, a repeated or missing field an error) or from an array holding
\* its fields in declaration order.
MemberFields ==
    << [name |-> <<110, 97, 109, 101>>, kind |-> "string"],
       [name |-> <<99, 111, 117, 110, 116>>, kind |-> "u8"] >>

BookFields ==
    << [name |-> <<112, 101, 111, 112, 108, 101>>, kind |-> "usize"],
       [name |-> <<105, 110, 116, 101, 114, 118, 97, 108>>, kind |-> "usize"],
       [name |-> <<109, 101, 109, 98, 101, 114, 115>>, kind |-> "members"] >>

FieldIndex(fields, key) ==
    IF \E k \in 1..Len(fields) : fields[k].name = key
    THEN CHOOSE k \in 1..Len(fields) : fields[k].name = key
    ELSE 0

RECURSIVE ParseField(_, _, _)
RECURSIVE ParseStruct(_, _, _)
RECURSIVE MapRest(_, _, _, _, _)
RECURSIVE MapKey(_, _, _, _)
RECURSIVE MapColon(_, _, _, _)
RECURSIVE MapValue(_, _, _, _, _)
RECURSIVE MapStore(_, _, _, _, _)
RECURSIVE SeqRest(_, _, _, _)
RECURSIVE SeqStore(_, _, _, _)
RECURSIVE ParseVec(_, _)
RECURSIVE VecRest(_, _, _, _)
RECURSIVE VecStore(_, _, _)

ParseField(kind, s, i) ==
    IF kind \in {"u8", "usize"} THEN ParseUnsigned(s, i, kind = "u8")
    ELSE IF kind = "string" THEN ParseString(s, i)
    ELSE ParseVec(s, i)

\* The value is the tuple of the field values in declaration order.
StructAt(fields, s, i) ==
    IF Peek(s, i) = -1 THEN PErr("EOF while parsing a value")
    ELSE IF Peek(s, i) = 123
    THEN MapRest(fields, s, SkipWs(s, i + 1), TRUE, [k \in 1..Len(fields) |-> None])
    ELSE IF Peek(s, i) = 91 THEN SeqRest(fields, s, SkipWs(s, i + 1), <<>>)
    ELSE PErr("invalid type: expected struct")

ParseStruct(fields, s, i0) == StructAt(fields, s, SkipWs(s, i0))

MapEnd(fields, got, pos) ==
    IF \E f \in 1..Len(fields) : ~got[f].some THEN PErr("missing field")
    ELSE POk([f \in 1..Len(fields) |-> got[f].v], pos)

\* The rest of an object, i being the first non-blank position after '{'
\* (first) or after an entry.
MapRest(fields, s, i, first, got) ==
    IF Peek(s, i) = -1 THEN PErr("EOF while parsing an object")
    ELSE IF Peek(s, i) = 125 THEN MapEnd(fields, got, i + 1)
    ELSE IF ~first /\ Peek(s, i) # 44 THEN PErr("expected comma or closing brace")
    ELSE MapKey(fields, s, IF first THEN i ELSE SkipWs(s, i + 1), got)

MapKey(fields, s, k, got) ==
    IF Peek(s, k) # 34 THEN PErr("key must be a string")
    ELSE MapColon(fields, s, ParseStrFrom(s, k + 1, <<>>), got)

MapColon(fields, s, key, got) ==
    IF ~key.ok THEN key
    ELSE MapValue(fields, s, FieldIndex(fields, key.val), SkipWs(s, key.pos), got)

MapValue(fields, s, idx, colon, got) ==
    IF Peek(s, colon) # 58 THEN PErr("expected colon")
    ELSE IF idx # 0 /\ got[idx].some THEN PErr("duplicate field")
    ELSE MapStore(fields, s, idx,
                  IF idx = 0 THEN SkipValue(s, colon + 1)
                  ELSE ParseField(fields[idx].kind, s, colon + 1),
                  got)

MapStore(fields, s, idx, v, got) ==
    IF ~v.ok THEN v
    ELSE MapRest(fields, s, SkipWs(s, v.pos), FALSE,
                 IF idx = 0 THEN got ELSE [got EXCEPT ![idx] = Some(v.val)])

\* The rest of an array that holds a struct, i being the first non-blank
\* position after '[' or after an element, vals the fields read so far.
SeqRest(fields, s, i, vals) ==
    IF Peek(s, i) = -1 THEN PErr("EOF while parsing a list")
    ELSE IF Len(vals) = Len(fields) THEN
        IF Peek(s, i) = 93 THEN POk(vals, i + 1) ELSE PErr("trailing characters")
    ELSE IF Peek(s, i) = 93 THEN PErr("invalid length")
    ELSE IF vals # <<>> /\ Peek(s, i) # 44 THEN PErr("expected comma or closing bracket")
    ELSE IF vals # <<>> /\ Peek(s, SkipWs(s, i + 1)) = 93 THEN PErr("trailing comma")
    ELSE SeqStore(fields, s,
                  ParseField(fields[Len(vals) + 1].kind, s, IF vals = <<>> THEN i ELSE i + 1),
                  vals)

SeqStore(fields, s, v, vals) ==
    IF ~v.ok THEN v ELSE SeqRest(fields, s, SkipWs(s, v.pos), Append(vals, v.val))

VecAt(s, i) ==
    IF Peek(s, i) = -1 THEN PErr("EOF while parsing a value")
    ELSE IF Peek(s, i) = 91 THEN VecRest(s, SkipWs(s, i + 1), TRUE, <<>>)
    ELSE PErr("invalid type: expected a sequence")

ParseVec(s, i0) == VecAt(s, SkipWs(s, i0))

\* The rest of the member list, i being the first non-blank position after
\* '[' (first) or after an element.
VecRest(s, i, first, acc) ==
    IF Peek(s, i) = -1 THEN PErr("EOF while parsing a list")
    ELSE IF Peek(s, i) = 93 THEN POk(acc, i + 1)
    ELSE IF ~first /\ Peek(s, i) # 44 THEN PErr("expected comma or closing bracket")
    ELSE IF ~first /\ Peek(s, SkipWs(s, i + 1)) = 93 THEN PErr("trailing comma")
    ELSE VecStore(s, ParseStruct(MemberFields, s, IF first THEN i ELSE i + 1), acc)

VecStore(s, m, acc) ==
    IF ~m.ok THEN m
    ELSE VecRest(s, SkipWs(s, m.pos), FALSE,
                 Append(acc, [name |-> m.val[1], count |-> m.val[2]]))

\* The whole buffer must be one Book, followed by whitespace only.
BookOf(bytes, r) ==
    IF ~r.ok THEN Err(r.err)
    ELSE IF SkipWs(bytes, r.pos) <= Len(bytes) THEN Err("trailing characters")
    ELSE Ok([people |-> r.val[1], interval |-> r.val[2], members |-> r.val[3]])

from_slice(bytes) == BookOf(bytes, ParseStruct(BookFields, bytes, 1))

DecodeJson(book) == IF ~book.ok THEN Err("json decode failed") ELSE book

DecodeBytes(bytes) ==
    IF ~bytes.ok THEN Err("base64url decode failed") ELSE DecodeJson(from_slice(bytes.val))

DecodeB64(b64) == IF ~b64.ok THEN b64 ELSE DecodeBytes(B64Decode(b64.val))

decode_book(hira) == DecodeB64(hiragana_to_base64url(hira))

\* ---------------------------------------------------------------- utilities
\* char::is_whitespace (the Unicode White_Space property), as str::trim uses.
IsWhitespace(c) ==
    \/ c \in {9, 10, 11, 12, 13, 32, 133, 160, 5760, 8232, 8233, 8239, 8287, 12288}
    \/ (c >= 8192 /\ c <= 8202)

RECURSIVE TrimStart(_)
TrimStart(s) == IF s # <<>> /\ IsWhitespace(Head(s)) THEN TrimStart(Tail(s)) ELSE s

RECURSIVE TrimEnd(_)
TrimEnd(s) ==
    IF s # <<>> /\ IsWhitespace(s[Len(s)]) THEN TrimEnd(SubSeq(s, 1, Len(s) - 1)) ELSE s

Trim(s) == TrimEnd(TrimStart(s))

\* str::split(','): the pieces between commas, empty pieces included.
RECURSIVE SplitComma(_)
SplitComma(s) ==
    IF \E k \in 1..Len(s) : s[k] = 44
    THEN LET k == CHOOSE j \in 1..Len(s) : s[j] = 44 /\ \A h \in 1..(j - 1) : s[h] # 44
         IN  <<SubSeq(s, 1, k - 1)>> \o SplitComma(SubSeq(s, k + 1, Len(s)))
    ELSE <<s>>

split_members_arg(s) ==
    LET pieces == SplitComma(s)
        trimmed == [i \in 1..Len(pieces) |-> Trim(pieces[i])]
    IN  SelectSeq(trimmed, LAMBDA x : x # <<>>)

Min2(a, b) == IF a <= b THEN a ELSE b

MaxCount(members) ==
    IF members = <<>> THEN 0
    ELSE CHOOSE c \in {members[i].count : i \in 1..Len(members)} :
             \A i \in 1..Len(members) : members[i].count <= c

MinCount(members) ==
    IF members = <<>> THEN 0
    ELSE CHOOSE c \in {members[i].count : i \in 1..Len(members)} :
             \A i \in 1..Len(members) : members[i].count >= c

\* ------------------------------------------------- command implementations
\* A command returns what it printed: out is the token line (None when no
\* token is printed), and the values it computed on the way.
Failed(e) == [ok |-> FALSE, err |-> e, out |-> None]

\* The token line of a command that changed the book, with what it computed.
Emit(hira, computed) ==
    IF ~hira.ok THEN Failed(hira.err)
    ELSE [ok |-> TRUE, out |-> Some(hira.val)] @@ computed

CreateBook(book) == Emit(encode_book(book), [book |-> book])

cmd_create(people, interval, members) ==
    IF people = USize(0) THEN Failed("--people must be >= 1")
    ELSE LET members_vec == IF members.some THEN split_members_arg(members.v) ELSE <<>>
             members_struct == [i \in 1..Len(members_vec) |->
                                   [name |-> members_vec[i], count |-> 0]]
         IN  CreateBook([people |-> people, interval |-> interval,
                         members |-> members_struct])

ShowBook(d) ==
    IF ~d.ok THEN Failed(d.err)
    ELSE [ok |-> TRUE, out |-> None, before |-> d.val, book |-> d.val]

cmd_show(book_str) == ShowBook(decode_book(book_str))

\* Faulty variant: the mean is cut to an integer, not rounded.
RoundedMean_Floor(members) ==
    SumSeq([i \in 1..Len(members) |-> members[i].count]) \div Len(members)

\* Faulty variant: the mean is rounded by adding one to the integer quotient.
RoundedMean_PlusOne(members) ==
    (SumSeq([i \in 1..Len(members) |-> members[i].count]) \div Len(members)) + 1

\* Faulty variant: the sum of the counts is not divided by their number.
RoundedMean_Sum(members) ==
    Min2(SumSeq([i \in 1..Len(members) |-> members[i].count]), 255)

\* ((s as f64) / (len as f64)).round() as u8: halves round away from zero, and
\* the cast saturates at 255.
RoundedMean(members) ==
    LET s == SumSeq([i \in 1..Len(members) |-> members[i].count])
        n == Len(members)
    IN  Min2((2 * s + n) \div (2 * n), 255)

AddEmit(before, book) == Emit(encode_book(book), [before |-> before, book |-> book])

AddPush(before, member, avg) ==
    AddEmit(before, [before EXCEPT !.members = Append(@, [name |-> member, count |-> avg])])

AddBook(d, member) ==
    IF ~d.ok THEN Failed(d.err)
    ELSE IF \E i \in 1..Len(d.val.members) : d.val.members[i].name = member
    THEN Failed("member already exists")
    ELSE AddPush(d.val, member,
                 IF d.val.members = <<>> THEN 0 ELSE RoundedMean(d.val.members))

cmd_add_member(book_str, member) == AddBook(decode_book(book_str), member)

\* Vec::retain keeps, in order, every entry the predicate accepts.
Retain(members, member) == SelectSeq(members, LAMBDA m : m.name # member)

\* Faulty variant: the check that an entry was removed is missing.
RemoveEmit_NoCheck(before, book) ==
    Emit(encode_book(book), [before |-> before, book |-> book])

RemoveEmit(before, book) ==
    IF Len(book.members) = Len(before.members) THEN Failed("member not found")
    ELSE Emit(encode_book(book), [before |-> before, book |-> book])

RemoveBook(d, member) ==
    IF ~d.ok THEN Failed(d.err)
    ELSE RemoveEmit(d.val, [d.val EXCEPT !.members = Retain(@, member)])

cmd_remove_member(book_str, member) == RemoveBook(decode_book(book_str), member)

\* Faulty variant: only the members that reached 5 are set back.
ResetStep_OnlyAtLimit(members) ==
    [i \in 1..Len(members) |->
        IF members[i].count >= 5 THEN [members[i] EXCEPT !.count = 0] ELSE members[i]]

\* Faulty variant: the reset needs a count above 5.
ResetStep_Above5(members) ==
    IF MaxCount(members) > 5
    THEN [i \in 1..Len(members) |-> [members[i] EXCEPT !.count = 0]]
    ELSE members

\* reset when any count >= 5
ResetStep(members) ==
    IF MaxCount(members) >= 5
    THEN [i \in 1..Len(members) |-> [members[i] EXCEPT !.count = 0]]
    ELSE members

\* Faulty variant: members one above the minimum are candidates too.
CandidatesAt_OneAbove(members, minc) ==
    SelectSeq([i \in 1..Len(members) |-> i], LAMBDA i : members[i].count <= minc + 1)

\* The positions (from 1) of the members whose count is the minimum, in order.
CandidatesAt(members, minc) ==
    SelectSeq([i \in 1..Len(members) |-> i], LAMBDA i : members[i].count = minc)

Candidates(members) == CandidatesAt(members, MinCount(members))

\* slice::shuffle: the outcome is the permutation p of the slice, whichever
\* generator (seeded ChaCha8 or thread_rng) drives it.
Shuffle(candidates_idx, p) == [i \in 1..Len(candidates_idx) |-> candidates_idx[p[i]]]

\* Faulty variant: the wrap starts at 5.
Wrap_AtFive(newc) == IF newc >= 5 THEN 0 ELSE newc

\* increment count with wrap >5 -> 0 (u8, saturating add)
Wrap(newc) == IF newc > 5 THEN 0 ELSE newc

Increment(count) == Wrap(Min2(count + 1, 255))

RECURSIVE ApplySelected(_, _)
ApplySelected(members, selected_idx) ==
    IF selected_idx = <<>> THEN members
    ELSE ApplySelected([members EXCEPT ![Head(selected_idx)].count = Increment(@)],
                       Tail(selected_idx))

AssignEmit(computed, book) == Emit(encode_book(book), computed @@ [book |-> book])

AssignUpdate(before, after_reset, candidates_idx, selected_idx) ==
    AssignEmit([before |-> before, reset |-> MaxCount(before.members) >= 5,
                after_reset |-> after_reset, minc |-> MinCount(after_reset),
                candidates_idx |-> candidates_idx, selected_idx |-> selected_idx],
               [before EXCEPT !.members = ApplySelected(after_reset, selected_idx)])

\* Faulty variant: the whole pool is taken, whatever people is.
Take_All(people, shuffled) == shuffled

Take(people, shuffled) == SubSeq(shuffled, 1, UMin(people, Len(shuffled)))

AssignSelect(before, after_reset, candidates_idx, p) ==
    AssignUpdate(before, after_reset, candidates_idx,
                 Take(before.people, Shuffle(candidates_idx, p)))

AssignReset(before, after_reset, p) ==
    AssignSelect(before, after_reset, Candidates(after_reset), p)

AssignBook(d, p) ==
    IF ~d.ok THEN Failed(d.err)
    ELSE IF d.val.members = <<>> THEN Failed("no members")
    ELSE AssignReset(d.val, ResetStep(d.val.members), p)

cmd_assign(book_str, p) == AssignBook(decode_book(book_str), p)

\* The number of candidates the shuffle of an assign on book_str permutes.
PoolOf(d) == IF ~d.ok THEN 0 ELSE Len(Candidates(ResetStep(d.val.members)))

PoolSize(book_str) == PoolOf(decode_book(book_str))

\* ------------------------------------------------------ the caller's inputs
NameA == <<65>>
NameB == <<12383>>
NameC == <<34>>
Names == {NameA, NameB, NameC}

\* --members: absent, "A,<NameB>", and " A ,,<NameB>,A" (blanks, an empty
\* piece and a repeated name).
MembersArgs ==
    {None, Some(<<65, 44, 12383>>), Some(<<32, 65, 32, 44, 44, 12383, 44, 65>>)}

Intervals == {USize(7)}

\* The token the caller passes as --book: the current one, or a damaged copy
\* (last char lost, or first char replaced by a char outside the block).
Truncated(t) == IF t = <<>> THEN t ELSE SubSeq(t, 1, Len(t) - 1)
Foreign(t) == IF t = <<>> THEN <<65>> ELSE [t EXCEPT ![1] = 65]
BookArgs(t) == {t, Truncated(t), Foreign(t)}

\* ---------------------------------------------------------- state machine
\* token: the token the caller holds (empty before the first create).
\* last: the command that just ran and what it printed, or Idle.
Idle == [cmd |-> "none"]

Init == token = <<>> /\ last = Idle

Create(people, interval, members) ==
    /\ last = Idle
    /\ last' = [cmd |-> "create", people |-> people, interval |-> interval,
                members |-> members, res |-> cmd_create(people, interval, members)]
    /\ UNCHANGED token

Show(b) ==
    /\ last = Idle
    /\ last' = [cmd |-> "show", book_str |-> b, res |-> cmd_show(b)]
    /\ UNCHANGED token

AddMember(b, member) ==
    /\ last = Idle
    /\ last' = [cmd |-> "add-member", book_str |-> b, member |-> member,
                res |-> cmd_add_member(b, member)]
    /\ UNCHANGED token

RemoveMember(b, member) ==
    /\ last = Idle
    /\ last' = [cmd |-> "remove-member", book_str |-> b, member |-> member,
                res |-> cmd_remove_member(b, member)]
    /\ UNCHANGED token

Assign(b) ==
    /\ last = Idle
    /\ \E p \in Permutations(1..PoolSize(b)) :
           last' = [cmd |-> "assign", book_str |-> b, res |-> cmd_assign(b, p)]
    /\ UNCHANGED token

\* The caller keeps the token a command printed, or the one it had.
Adopt ==
    /\ last # Idle
    /\ token' = IF last.res.out.some THEN last.res.out.v ELSE token
    /\ last' = Idle

Next ==
    \/ \E people \in 0..MaxPeople, interval \in Intervals, members \in MembersArgs :
           Create(USize(people), interval, members)
    \/ \E b \in BookArgs(token) : Show(b)
    \/ \E b \in BookArgs(token), member \in Names : AddMember(b, member)
    \/ \E b \in BookArgs(token), member \in Names : RemoveMember(b, member)
    \/ \E b \in BookArgs(token) : Assign(b)
    \/ Adopt

Spec == Init /\ [][Next]_vars

\* ------------------------------------------------------------ codec inputs
\* The codec on its own: ledgers to encode and decode again, payloads wrapped
\* into well-formed tokens by an outside party, and single chars to map.
CodecNames == {<<>>, <<65, 34>>, <<12383, 10>>}
CodecPeople == {USize(1), USize(12), U64_MAX}
CodecIntervals == {USize(0), USize(7)}

CodecMembers == [name : CodecNames, count : 0..5]

DistinctNames(members) ==
    \A i, j \in 1..Len(members) : i # j => members[i].name # members[j].name

\* people >= 1, every count in [0,5], names pairwise distinct
ValidLedger(book) ==
    /\ book.people # USize(0)
    /\ \A i \in 1..Len(book.members) : book.members[i].count \in 0..5
    /\ DistinctNames(book.members)

ValidBooks ==
    {[people |-> pp, interval |-> iv, members |-> ms] :
        pp \in CodecPeople, iv \in CodecIntervals,
        ms \in {m \in UNION {[1..k -> CodecMembers] : k \in 0..MaxCodecMembers} :
                   DistinctNames(m)}}

\* Ledgers that break one invariant each: people = 0, a count of 6 or 255,
\* the first name repeated.
InvalidBooks ==
    {[bk EXCEPT !.people = USize(0)] : bk \in ValidBooks}
    \cup {[bk EXCEPT !.members[1].count = c] :
            bk \in {x \in ValidBooks : x.members # <<>>}, c \in {6, 255}}
    \cup {[bk EXCEPT !.members = Append(@, [name |-> bk.members[1].name, count |-> 0])] :
            bk \in {x \in ValidBooks : x.members # <<>>}}

\* Payloads that are no output of the serializer:
\*   empty: ''
\*   no field: '{}'
\*   members missing: '{"people":1,"interval":7}'
\*   negative people: '{"people":-1,"interval":7,"members":[]}'
\*   count beyond u8: '{"people":1,"interval":7,"members":[{"name":"A","count":256}]}'
\*   trailing text: '{"people":1,"interval":7,"members":[]}x'
\*   structs as arrays: '[1,7,[["A",2]]]'
\*   other order, blanks, unknown field, escape: ' {"members" : [ {"count":3,"name":"\\u0041"} ], "v":[null,{"k":-1.5e3}],\n"interval":0,"people":1 } '
OtherPayloads ==
    { <<>>,
      <<123, 125>>,
      <<123, 34, 112, 101, 111, 112, 108, 101, 34, 58, 49, 44, 34, 105, 110, 116, 101, 114, 118, 97, 108, 34, 58, 55, 125>>,
      <<123, 34, 112, 101, 111, 112, 108, 101, 34, 58, 45, 49, 44, 34, 105, 110, 116, 101, 114, 118, 97, 108, 34, 58, 55, 44, 34, 109, 101, 109, 98, 101, 114, 115, 34, 58, 91, 93, 125>>,
      <<123, 34, 112, 101, 111, 112, 108, 101, 34, 58, 49, 44, 34, 105, 110, 116, 101, 114, 118, 97, 108, 34, 58, 55, 44, 34, 109, 101, 109, 98, 101, 114, 115, 34, 58, 91, 123, 34, 110, 97, 109, 101, 34, 58, 34, 65, 34, 44, 34, 99, 111, 117, 110, 116, 34, 58, 50, 53, 54, 125, 93, 125>>,
      <<123, 34, 112, 101, 111, 112, 108, 101, 34, 58, 49, 44, 34, 105, 110, 116, 101, 114, 118, 97, 108, 34, 58, 55, 44, 34, 109, 101, 109, 98, 101, 114, 115, 34, 58, 91, 93, 125, 120>>,
      <<91, 49, 44, 55, 44, 91, 91, 34, 65, 34, 44, 50, 93, 93, 93>>,
      <<32, 123, 34, 109, 101, 109, 98, 101, 114, 115, 34, 32, 58, 32, 91, 32, 123, 34, 99, 111, 117, 110, 116, 34, 58, 51, 44, 34, 110, 97, 109, 101, 34, 58, 34, 92, 117, 48, 48, 52, 49, 34, 125, 32, 93, 44, 32, 34, 118, 34, 58, 91, 110, 117, 108, 108, 44, 123, 34, 107, 34, 58, 45, 49, 46, 53, 101, 51, 125, 93, 44, 10, 34, 105, 110, 116, 101, 114, 118, 97, 108, 34, 58, 48, 44, 34, 112, 101, 111, 112, 108, 101, 34, 58, 49, 32, 125, 32>> }

CodecChars ==
    0..127 \cup {321}
    \cup (HIRAGANA_START - 2)..(HIRAGANA_START + BASE64_LEN + 1)

InitCodec ==
    /\ token = <<>>
    /\ \/ \E bk \in ValidBooks : last = [cmd |-> "book", book |-> bk]
       \/ \E bk \in InvalidBooks : last = [cmd |-> "payload", bytes |-> SerBook(bk)]
       \/ \E bytes \in OtherPayloads : last = [cmd |-> "payload", bytes |-> bytes]
       \/ \E ch \in CodecChars : last = [cmd |-> "char", ch |-> ch]

EncodeBook ==
    /\ last.cmd = "book"
    /\ last' = [cmd |-> "encoded", book |-> last.book, res |-> encode_book(last.book)]
    /\ token' = last'.res.val

\* An outside party writes a payload as a well-formed token.
WrapPayload ==
    /\ last.cmd = "payload"
    /\ last' = [cmd |-> "wrapped", bytes |-> last.bytes]
    /\ token' = base64url_to_hiragana(B64Encode(last.bytes)).val

DecodeToken ==
    /\ last.cmd \in {"encoded", "wrapped"}
    /\ last' = [cmd |-> "decoded", src |-> last, res |-> decode_book(token)]
    /\ UNCHANGED token

Back(r, ch) == IF r.some THEN (IF ch = 0 THEN hiragana_char_to_base64url(r.v)
                               ELSE base64url_char_to_hiragana(r.v))
               ELSE None

MapChar ==
    /\ last.cmd = "char"
    /\ last' = [cmd |-> "mapped", ch |-> last.ch,
                to_hira |-> base64url_char_to_hiragana(last.ch),
                to_hira_back |-> Back(base64url_char_to_hiragana(last.ch), 0),
                to_b64 |-> hiragana_char_to_base64url(last.ch),
                to_b64_back |-> Back(hiragana_char_to_base64url(last.ch), 1)]
    /\ UNCHANGED token

NextCodec == EncodeBook \/ WrapPayload \/ DecodeToken \/ MapChar

SpecCodec == InitCodec /\ [][NextCodec]_vars

\* ----------------------------------------------- assign on any ledger
\* assign decodes whatever token it is given: the ledger need not come from
\* create, and a count may be any u8.
AnyCounts == {0, 2, 4, 5, 255}

AnyName(i) == <<64 + i>>

AnyMembers(counts) == [i \in 1..Len(counts) |-> [name |-> AnyName(i), count |-> counts[i]]]

AnyBooks ==
    {[people |-> USize(pp), interval |-> USize(7), members |-> AnyMembers(cs)] :
        pp \in 0..MaxPeople,
        cs \in UNION {[1..k -> AnyCounts] : k \in 0..MaxMembers}}

InitAny ==
    /\ token \in {encode_book(book).val : book \in AnyBooks}
    /\ last = Idle

NextAny == Assign(token) \/ Adopt

SpecAny == InitAny /\ [][NextAny]_vars

\* ------------------------------------------------ runs of assign calls
\* The caller feeds every printed token to the next command. last holds the
\* ledger of that token and, for each member, how many assign calls in a row
\* have passed it over since the last create, add-member or remove-member
\* (counted up to one past the longest window looked at).
Ceil(n, p) == (n + p - 1) \div p

Rounds(book) == Ceil(Len(book.members), UValue(book.people))

SinceCap(book) == 2 * Rounds(book) + 2

\* --members for the first k of the names A, B, C, ...
RunMembersArg(k) == Some([i \in 1..(2 * k - 1) |->
                            IF i % 2 = 1 THEN AnyName((i + 1) \div 2)[1] ELSE 44])

\* The member that joins and leaves.
Newcomer == AnyName(MaxRunMembers)

Fresh(book) == [cmd |-> "run", book |-> book,
                since |-> [i \in 1..Len(book.members) |-> 0]]

\* A command that fails prints no token: the caller keeps the one it has.
Restart(res) ==
    IF res.ok THEN /\ token' = res.out.v
                   /\ last' = Fresh(res.book)
    ELSE UNCHANGED vars

RunCreate(people, k) ==
    /\ last = Idle
    /\ Restart(cmd_create(USize(people), USize(7), RunMembersArg(k)))

\* add-member, remove-member and assign on the token the caller holds, d
\* being what decode_book makes of it.
RunAdd(d) == Restart(AddBook(d, Newcomer))

RunRemove(d) == Restart(RemoveBook(d, Newcomer))

PassedOver(since, res) ==
    [i \in 1..Len(since) |->
        IF \E k \in 1..Len(res.selected_idx) : res.selected_idx[k] = i
        THEN 0 ELSE Min2(since[i] + 1, SinceCap(res.book))]

RunStep(res) ==
    IF res.ok
    THEN /\ token' = res.out.v
         /\ last' = [cmd |-> "run", book |-> res.book,
                     since |-> PassedOver(last.since, res)]
    ELSE UNCHANGED vars

\* The sets of members the permutations of the pool leave after the take, and
\* for each set one permutation that selects it: permutations that select
\* the same members give the same ledger.
SetOf(selected_idx) == {selected_idx[k] : k \in 1..Len(selected_idx)}

Selections(people, candidates_idx) ==
    {SetOf(Take(people, Shuffle(candidates_idx, p))) :
        p \in Permutations(1..Len(candidates_idx))}

PermFor(people, candidates_idx, selected) ==
    CHOOSE p \in Permutations(1..Len(candidates_idx)) :
        SetOf(Take(people, Shuffle(candidates_idx, p))) = selected

RunAssignFrom(d, candidates_idx) ==
    \E selected \in Selections(d.val.people, candidates_idx) :
        RunStep(AssignBook(d, PermFor(d.val.people, candidates_idx, selected)))

RunAssign(d) ==
    /\ d.ok
    /\ RunAssignFrom(d, Candidates(ResetStep(d.val.members)))

RunCommand(d) == RunAdd(d) \/ RunRemove(d) \/ RunAssign(d)

NextRun ==
    \/ \E people \in 1..MaxPeople, k \in 1..MaxRunMembers : RunCreate(people, k)
    \/ last.cmd = "run" /\ RunCommand(decode_book(token))

SpecRun == Init /\ [][NextRun]_vars

\* ================================================================== claims
NamesOf(members) == {members[i].name : i \in 1..Len(members)}

CountsWithin(members) == \A i \in 1..Len(members) : members[i].count \in 0..5

IsBase64UrlSymbol(ch) ==
    ch \in (65..90) \cup (97..122) \cup (48..57) \cup {45, 95}

InBlock(ch) == ch \in HIRAGANA_START..(HIRAGANA_START + BASE64_LEN - 1)

\* ---- C1
LedgerCountsWithin(d) == d.ok => CountsWithin(d.val.members)

\* C1: count bound. The ledger the caller holds after a create and any
\* add-member, remove-member and assign commands, and the ledger any command
\* just printed, has every member's count in 0..5.
C1_CountBound ==
    /\ LedgerCountsWithin(decode_book(token))
    /\ (last # Idle /\ last.res.ok) => CountsWithin(last.res.book.members)

\* An assign has just left a member at the upper end of the range.
C1_Witness ==
    /\ last.cmd = "assign" /\ last.res.ok
    /\ \E i \in 1..Len(last.res.book.members) : last.res.book.members[i].count = 5

\* ---- C2
LedgerNamesDistinct(d) == d.ok => DistinctNames(d.val.members)

\* C2: name uniqueness. No two members of the ledger the caller holds share a
\* name, whatever --members was given to create.
C2_NamesUnique == LedgerNamesDistinct(decode_book(token))

\* ---- C3
SelectedAtMin(members, selected_idx) ==
    \A k \in 1..Len(selected_idx) :
        members[selected_idx[k]].count = MinCount(members)

\* C3 as stated: every member an assign selects had, in the ledger decoded at
\* the start of the call (before the reset step), the minimum count.
C3_FairAtCallTime ==
    (last.cmd = "assign" /\ last.res.ok)
        => SelectedAtMin(last.res.before.members, last.res.selected_idx)

\* C3 amended: every member an assign selects has the minimum count of the
\* ledger after the reset step; that is the minimum at the start of the call
\* whenever no count is 5 or more at the start.
C3_FairAfterReset ==
    (last.cmd = "assign" /\ last.res.ok)
        => /\ SelectedAtMin(last.res.after_reset, last.res.selected_idx)
           /\ (\A i \in 1..Len(last.res.before.members) :
                   last.res.before.members[i].count < 5)
              => SelectedAtMin(last.res.before.members, last.res.selected_idx)

\* An assign without reset that left out a member above the minimum.
C3_Witness ==
    /\ last.cmd = "assign" /\ last.res.ok /\ ~last.res.reset
    /\ \E i \in 1..Len(last.res.before.members) :
           last.res.before.members[i].count > MinCount(last.res.before.members)

\* ---- C4
\* C4: round trip. Encoding a valid ledger succeeds and decoding the token
\* gives the same ledger, member order and counts included; each base64url
\* symbol maps into the block and back to itself, and each code point of the
\* block maps to a base64url symbol and back to itself.
C4_RoundTrip ==
    /\ last.cmd = "encoded" => last.res.ok
    /\ (last.cmd = "decoded" /\ last.src.cmd = "encoded")
           => last.res = Ok(last.src.book)
    /\ (last.cmd = "mapped" /\ IsBase64UrlSymbol(last.ch))
           => /\ last.to_hira.some
              /\ InBlock(last.to_hira.v)
              /\ last.to_hira_back = Some(last.ch)
    /\ (last.cmd = "mapped" /\ InBlock(last.ch))
           => /\ last.to_b64.some
              /\ IsBase64UrlSymbol(last.to_b64.v)
              /\ last.to_b64_back = Some(last.ch)

\* A ledger of two members, one name with a quote and one with a multi-byte
\* char and a control char, has been encoded and decoded.
C4_Witness ==
    /\ last.cmd = "decoded" /\ last.src.cmd = "encoded" /\ last.res.ok
    /\ Len(last.src.book.members) = 2
    /\ last.src.book.members[1] = [name |-> <<12383, 10>>, count |-> 5]
    /\ last.src.book.members[2] = [name |-> <<65, 34>>, count |-> 0]
    /\ last.src.book.people = USize(12)

\* ---- C5
\* C5: decode validates. Whenever decoding a token succeeds, the ledger has
\* people >= 1, every count in 0..5 and pairwise distinct names.
C5_DecodeValidates ==
    (last.cmd = "decoded" /\ last.res.ok) => ValidLedger(last.res.val)

\* ---- C6
RemoveFirst(members, member) ==
    LET k == CHOOSE j \in 1..Len(members) :
                 members[j].name = member /\ \A h \in 1..(j - 1) : members[h].name # member
    IN  SubSeq(members, 1, k - 1) \o SubSeq(members, k + 1, Len(members))

RemoveAsClaimed(d, member, res) ==
    d.ok => IF member \notin NamesOf(d.val.members)
            THEN ~res.ok /\ res.err = "member not found"
            ELSE /\ res.ok
                 /\ res.book = [d.val EXCEPT !.members = RemoveFirst(@, member)]

\* C6: remove. With a name no member has, remove-member fails with "member
\* not found"; otherwise the resulting ledger is the original one with exactly
\* one entry, the first of that name, taken out.
C6_RemoveOne ==
    last.cmd = "remove-member" => RemoveAsClaimed(decode_book(last.book_str), last.member, last.res)

\* ---- C7
\* The mean of the counts rounded to the nearest integer, halves up.
NearestHalfUp(members) ==
    LET n == Len(members)
        s == SumSeq([i \in 1..Len(members) |-> members[i].count])
    IN  IF n = 0 THEN 0
        ELSE CHOOSE r \in 0..255 : 2 * n * r <= 2 * s + n /\ 2 * s + n < 2 * n * (r + 1)

AddAsClaimed(d, member, res) ==
    (d.ok /\ member \notin NamesOf(d.val.members))
        => /\ res.ok
           /\ res.book = [d.val EXCEPT !.members =
                  Append(@, [name |-> member, count |-> NearestHalfUp(d.val.members)])]
           /\ decode_book(res.out.v) = Ok(res.book)

\* C7: add. add-member with a name not yet present appends one member whose
\* count is the mean of the existing counts rounded to nearest, halves up, 0
\* for an empty list, and leaves people, interval and the existing members as
\* they were.
C7_Add ==
    last.cmd = "add-member" => AddAsClaimed(decode_book(last.book_str), last.member, last.res)

\* A member was added to two members whose counts differ by one, so that the
\* mean ends in one half.
C7_Witness ==
    /\ last.cmd = "add-member" /\ last.res.ok
    /\ Len(last.res.before.members) = 2
    /\ last.res.before.members[1].count + 1 = last.res.before.members[2].count
    /\ last.res.book.members[3].count = last.res.before.members[2].count

\* ---- C8
FailureCase(l, d) ==
    \/ l.cmd = "create" /\ l.people = USize(0)
    \/ l.cmd \in {"show", "add-member", "remove-member", "assign"} /\ ~d.ok
    \/ l.cmd = "add-member" /\ d.ok /\ l.member \in NamesOf(d.val.members)
    \/ l.cmd = "remove-member" /\ d.ok /\ l.member \notin NamesOf(d.val.members)
    \/ l.cmd = "assign" /\ d.ok /\ d.val.members = <<>>

ArgOf(l) == IF l.cmd = "create" THEN <<>> ELSE l.book_str

\* C8: no partial mutation. A command that fails (create with people = 0,
\* add-member of a present name, remove-member of an absent name, assign on
\* an empty list, any command on an undecodable token) prints no token, so
\* the caller is left with the token it had.
C8_NoTokenOnFailure ==
    (last # Idle /\ FailureCase(last, decode_book(ArgOf(last))))
        => ~last.res.ok /\ last.res.out = None

\* A remove-member of an absent name has failed on a ledger that has members.
C8_Witness ==
    /\ last.cmd = "remove-member" /\ ~last.res.ok
    /\ last.book_str = token
    /\ last.res.err = "member not found"
    /\ PoolSize(token) > 0

\* ---- C9
AllPositions(members) == [i \in 1..Len(members) |-> i]

\* C9: reset trigger. When some count is 5 or more at the start of an assign,
\* every count is 0 after the reset step and the candidate pool is the whole
\* member list; otherwise the reset step changes nothing.
C9_ResetTrigger ==
    (last.cmd = "assign" /\ last.res.ok)
        => IF \E i \in 1..Len(last.res.before.members) : last.res.before.members[i].count >= 5
           THEN /\ \A i \in 1..Len(last.res.after_reset) : last.res.after_reset[i].count = 0
                /\ last.res.candidates_idx = AllPositions(last.res.before.members)
                /\ NamesOf(last.res.after_reset) = NamesOf(last.res.before.members)
           ELSE last.res.after_reset = last.res.before.members

\* An assign has reset a ledger in which one member was at 5 and another below.
C9_Witness ==
    /\ last.cmd = "assign" /\ last.res.ok /\ last.res.reset
    /\ \E i, j \in 1..Len(last.res.before.members) :
           /\ last.res.before.members[i].count = 5
           /\ last.res.before.members[j].count < 5

\* ---- C10
PoolOfMinimum(members) ==
    {i \in 1..Len(members) : \A j \in 1..Len(members) : members[i].count <= members[j].count}

TakeAsClaimed(d, res) ==
    (d.ok /\ d.val.members # <<>>)
        => /\ res.ok
           /\ Len(res.selected_idx) = UMin(d.val.people, Cardinality(PoolOfMinimum(res.after_reset)))
           /\ \A h, k \in 1..Len(res.selected_idx) :
                  h # k => res.selected_idx[h] # res.selected_idx[k]
           /\ \A k \in 1..Len(res.selected_idx) :
                  res.selected_idx[k] \in PoolOfMinimum(res.after_reset)

\* C10: take. An assign on a non-empty ledger succeeds, selects exactly
\* min(people, size of the pool) pairwise distinct members, all of them in the
\* pool of members at the minimum count after the reset step.
C10_Take ==
    last.cmd = "assign" => TakeAsClaimed(decode_book(last.book_str), last.res)

\* An assign wanted more people than the pool held while a member above the
\* minimum stayed unselected.
C10_Witness ==
    /\ last.cmd = "assign" /\ last.res.ok
    /\ UMin(last.res.before.people, Len(last.res.before.members)) > Len(last.res.candidates_idx)
    /\ Len(last.res.candidates_idx) < Len(last.res.before.members)
    /\ Len(last.res.selected_idx) = Len(last.res.candidates_idx)

\* ---- C12
CountsOf(members) == [i \in 1..Len(members) |-> members[i].count]

SelectedSet(res) == {res.selected_idx[k] : k \in 1..Len(res.selected_idx)}

FrameAsClaimed(before, selected, after) ==
    /\ after.ok
    /\ after.val.people = before.people
    /\ after.val.interval = before.interval
    /\ Len(after.val.members) = Len(before.members)
    /\ \A i \in 1..Len(before.members) :
           /\ after.val.members[i].name = before.members[i].name
           /\ after.val.members[i].count =
                  before.members[i].count + (IF i \in selected THEN 1 ELSE 0)

\* C12: frame of assign. When no count of the input ledger is 5 or more (the
\* reset step does not fire), the ledger in the printed token has the people,
\* the interval, the names and the order of the input ledger, the count of
\* every selected member is one higher and every other count is the same.
C12_Frame ==
    (/\ last.cmd = "assign" /\ last.res.ok
     /\ \A i \in 1..Len(last.res.before.members) : last.res.before.members[i].count < 5)
        => /\ last.res.before = decode_book(last.book_str).val
           /\ FrameAsClaimed(last.res.before, SelectedSet(last.res),
                             decode_book(last.res.out.v))

\* A(4), B(4), C(2) with people = 1 has become A(4), B(4), C(3).
C12_Witness ==
    /\ last.cmd = "assign" /\ last.res.ok
    /\ last.res.before.people = USize(1)
    /\ CountsOf(last.res.before.members) = <<4, 4, 2>>
    /\ CountsOf(decode_book(last.res.out.v).val.members) = <<4, 4, 3>>

\* ---- C13
\* C13: the per-selection wrap never fires. In every successful assign, on
\* any decodable ledger, every count after the reset step is at most 4, every
\* selected member ends with its count after the reset step plus one (a value
\* in 1..5, never the 0 of the wrap), and a count that was not 0 and is 0 at
\* the end belongs to an assign whose reset fired.
C13_NoWrap ==
    (last.cmd = "assign" /\ last.res.ok)
        => /\ \A i \in 1..Len(last.res.after_reset) : last.res.after_reset[i].count <= 4
           /\ \A i \in SelectedSet(last.res) :
                  /\ last.res.book.members[i].count = last.res.after_reset[i].count + 1
                  /\ last.res.book.members[i].count \in 1..5
           /\ \A i \in 1..Len(last.res.before.members) :
                  (last.res.before.members[i].count # 0 /\ last.res.book.members[i].count = 0)
                      => \E j \in 1..Len(last.res.before.members) :
                             last.res.before.members[j].count >= 5

\* A member whose count was 255 has been selected and now has 1, while a
\* member that was at 4 is back at 0.
C13_Witness ==
    /\ last.cmd = "assign" /\ last.res.ok
    /\ \E i \in SelectedSet(last.res), j \in 1..Len(last.res.before.members) :
           /\ last.res.before.members[i].count = 255
           /\ last.res.book.members[i].count = 1
           /\ last.res.before.members[j].count = 4
           /\ last.res.book.members[j].count = 0

\* ---- C14
Balanced(members) ==
    \A i, j \in 1..Len(members) : members[i].count - members[j].count <= 1

\* C14: balance. In every ledger that create, add-member, remove-member or
\* assign hands back, starting from a create, the largest and the smallest
\* count differ by at most 1.
C14_Balance ==
    (last # Idle /\ last.res.ok) => Balanced(last.res.book.members)

\* An add-member has put a third member into a ledger that holds counts 5
\* and 4 side by side.
C14_Witness ==
    /\ last.cmd = "add-member" /\ last.res.ok
    /\ Len(last.res.book.members) = 3
    /\ \E i, j \in 1..2 : /\ last.res.book.members[i].count = 5
                           /\ last.res.book.members[j].count = 4

\* ---- C15
\* C15 as claimed: no member is passed over by 2 * ceil(n / people) assign
\* calls in a row, so every window of that many consecutive assigns selects
\* every member.
C15_Window ==
    last.cmd = "run"
        => \A i \in 1..Len(last.since) : last.since[i] < 2 * Rounds(last.book)

\* C15: no starvation. No member is passed over by 2 * ceil(n / people) + 1
\* assign calls in a row, so every window of 2 * ceil(n / people) + 1
\* consecutive assigns selects every member, whatever the shuffles do.
C15_WindowPlusOne ==
    last.cmd = "run"
        => \A i \in 1..Len(last.since) : last.since[i] < 2 * Rounds(last.book) + 1

\* A member has been passed over 2 * ceil(n / people) times in a row, a reset
\* among them: it is at 0 beside a member that the last assign took to 1.
C15_Witness ==
    /\ last.cmd = "run"
    /\ \E i, j \in 1..Len(last.since) :
           /\ last.since[i] = 2 * Rounds(last.book)
           /\ last.book.members[i].count = 0
           /\ last.since[j] = 0
           /\ last.book.members[j].count = 1

====
